---------------------------- MODULE Spec2Model ----------------------------
(***************************************************************************)
(* Send/dispatch pipeline of tulasu/messaging.                             *)
(*                                                                         *)
(* The repository holds two drafts of the pipeline:                        *)
(*   - the JetStream service (src/src): one message_history row per        *)
(*     message, an append-only message_attempts log, OutboundMessageEvent  *)
(*     items in a JetStream stream with explicit ack, one worker per      *)
(*     running instance of the service;                                    *)
(*   - the core service (src/core): a Message with several                 *)
(*     MessageDestination rows, a Redis list per messenger plus a delayed  *)
(*     list, MessageService and MessageQueueWorker.                        *)
(* Spec is the JetStream service, SpecCore the core service.               *)
(***************************************************************************)
EXTENDS Integers, Sequences, FiniteSets, TLC

\* ------------------------------------------------------------------ bounds
MaxMessages == 1        \* message ids the model hands out
MaxManualRetries == 1   \* manual retries per message
MaxFaults == 1          \* injected store, publish and ack failures
MaxDests == 2           \* destinations the core service creates
MaxSendFailures == 4    \* failing adapter answers in the core service
MaxRegistrations == 3   \* RegisterTokenUseCase.execute calls
MaxRetryCount == 6      \* retry counts calculate_retry_schedule is applied to
MaxWorkers == 2         \* service instances pulling from the durable consumer
MaxCallers == 2         \* dequeue calls in progress on one messenger's lists
\* ------------------------------------------------------- program constants
MaxAttempts == 3        \* SYSTEM_RETRY_LIMIT default
MaxDeliver == 10        \* NATS_MAX_DELIVER default

Messages == 1..MaxMessages

\* JetstreamWorker tasks, one per running instance of the service: all bind
\* to the same durable consumer (get_or_create_consumer)
Workers == 1..MaxWorkers

\* recipients a request can name: a chat id the platform accepts, and one it
\* rejects on every call (TelegramClient.send: "invalid telegram chat_id format")
Recipients == {"12345", "bad"}

VARIABLES
    token,          \* an active messenger token exists for (user, messenger)
    history,        \* message_history rows
    attempts_log,   \* message_attempts rows per message, in insertion order
    stream,         \* un-acked events of the JetStream consumer
    worker,         \* position of each JetstreamWorker in process_message
    manual_retries, \* RetryMessageUseCase executions per message (history variable)
    faults,         \* store, publish and ack failures injected so far (history variable)
    schedule_result, \* what the last ScheduleMessageUseCase.execute returned
    retry_result,   \* what the last RetryMessageUseCase.execute returned
    attempts_result \* what the last GetMessageAttemptsUseCase.execute returned

reqVars == <<retry_result, attempts_result>>

jsVars == <<token, history, attempts_log, stream, worker, manual_retries, faults,
            schedule_result, reqVars>>

\* users: the one who registers the token and schedules, and another one
Users == {1, 2}

TokenUser == 1

\* ---------------------------------------------------------- core service state
VARIABLES
    destinations,   \* message_destinations rows
    queue,          \* Redis list queue:<messenger>, index 1 is the left end
    delayed,        \* Redis list queue_delayed:<messenger>, index 1 is the left end
    now,            \* Utc::now() in seconds
    service,        \* position of MessageService.process_pending_message
    owed,           \* per destination: items published minus items processed to
                    \* completion (history variable)
    core_manual,    \* retry_failed_message executions so far (history variable)
    core_faults,    \* store and queue failures injected so far (history variable)
    send_failures,  \* failing adapter answers so far (history variable)
    send_result,    \* what the last SendMessageUseCase.execute returned
    adapter_calls,  \* per destination: adapter.send_message calls so far (history
                    \* variable)
    failed_at       \* per destination: instant of the last failing adapter answer
                    \* (history variable)

coreVars == <<destinations, queue, delayed, now, service, owed, core_manual, core_faults,
              send_failures, send_result, adapter_calls, failed_at>>

\* ------------------------------------------------------ token registration state
VARIABLES
    tokens,         \* per MessengerTokenRepository ("postgres" as wired by main.rs,
                    \* "in_memory"): the tokens of one (user_id, messenger), by id
    token_clock,    \* Utc::now() as seen by the token repository
    registering     \* RegisterTokenUseCase.execute calls in progress

tokVars == <<tokens, token_clock, registering>>

\* ------------------------------------------------------------ retry sweeper state
VARIABLES
    sweeper         \* position of MessageQueueWorker.process_retries and the
                    \* destinations find_pending_retries returned to it

VARIABLES
    retry_schedule, \* a pair of retry counts and what calculate_retry_schedule
                    \* returned for them
    round_trip      \* a send request, the rows PostgresMessageRepository.save wrote
                    \* for it and what find_by_id returned

pureVars == <<retry_schedule, round_trip>>

\* ------------------------------------------- RedisMessageQueue.dequeue, by command
VARIABLES
    dequeue_calls,  \* per caller: the Redis command its dequeue call issues next
                    \* and the entry its LRANGE returned
    put,            \* per destination: requeue_with_delay calls (history variable)
    taken           \* the items RPOP handed to dequeue calls (history variable)

promoVars == <<dequeue_calls, put, taken>>

sideVars == <<tokVars, sweeper, pureVars, promoVars>>

vars == <<jsVars, coreVars, sideVars>>

NoEntry ==
    [exists |-> FALSE, user_id |-> 0, recipient |-> "12345", status |-> "Pending",
     reason |-> "none", attempts |-> 0]

\* MessageStatus -> (status, status_reason) columns
message_status_to_fields(status, reason) ==
    IF status \in {"Retrying", "Failed"} THEN <<status, reason>> ELSE <<status, "none">>

\* MessageHistoryRepository.update_status: overwrites status, reason and attempts
update_status(h, m, status, reason, attempts) ==
    IF h[m].exists
    THEN [h EXCEPT ![m].status = message_status_to_fields(status, reason)[1],
                   ![m].reason = message_status_to_fields(status, reason)[2],
                   ![m].attempts = attempts]
    ELSE h

\* MessageHistoryRepository.log_attempt: appends one row
log_attempt(l, m, attempt_number, status, reason) ==
    [l EXCEPT ![m] = Append(@, [attempt_number |-> attempt_number,
                                 status |-> message_status_to_fields(status, reason)[1],
                                 reason |-> message_status_to_fields(status, reason)[2]])]

\* OutboundMessageEvent as it sits in the stream
Event(m, attempt) ==
    [message_id |-> m, attempt |-> attempt, max_attempts |-> MaxAttempts,
     deliveries |-> 0, state |-> "ready"]

\* JetstreamBus.publish: appends to the stream
publish(s, e) == Append(s, e)

RemoveAt(s, i) == [j \in 1..(Len(s) - 1) |-> IF j < i THEN s[j] ELSE s[j + 1]]

\* message.ack(): the event leaves the consumer
ack(s, i) == RemoveAt(s, i)

\* no ack: the broker redelivers after ack_wait until max_deliver is reached
nack(s, i) ==
    IF s[i].deliveries >= MaxDeliver
    THEN RemoveAt(s, i)
    ELSE [s EXCEPT ![i].state = "ready"]

\* MessengerClient.send: what the platform answers for a recipient
AdapterAnswers(recipient) ==
    IF recipient = "bad" THEN {"invalid chat id"} ELSE {"ok", "network"}

\* store_failed: a store call failed inside handler.handle (history field)
Idle == [pc |-> "idle", cur |-> 0, result |-> "none", store_failed |-> FALSE]

\* GetMessageAttemptsUseCase.execute was not called yet
NoAttemptsResult == [message_id |-> 0, user_id |-> 0, error |-> "none", attempts |-> <<>>]

\* RetryMessageUseCase.execute was not called yet
NoRetryResult == [message_id |-> 0, user_id |-> 0, result |-> "none"]

\* a failure of the store, the bus or the ack may be injected
MayFail == faults < MaxFaults

\* ------------------------------------------------------ core service helpers
Dests == 1..MaxDests

NULL == -1

NoDestination ==
    [exists |-> FALSE, message_id |-> 0, status |-> "pending", retry_count |-> 0,
     last_attempt |-> NULL, sent_at |-> NULL, error_message |-> "none"]

RECURSIVE Pow2(_)
Pow2(n) == IF n = 0 THEN 1 ELSE 2 * Pow2(n - 1)

Min(a, b) == IF a < b THEN a ELSE b

\* width of u64
U64Bits == 64

\* what a computation that leaves the range of u64 yields
Overflow == -1

\* 2_u64.pow(exp)
pow_u64(exp) == IF exp >= U64Bits THEN Overflow ELSE Pow2(exp)

\* calculate_retry_schedule with the cap its comment names ("max 32min")
calculate_retry_schedule_max_32min(retry_count) ==
    LET power == pow_u64(Min(retry_count, 5))
    IN IF power = Overflow THEN Overflow ELSE 60 * power

\* DefaultMessageRoutingService.calculate_retry_schedule, in seconds
calculate_retry_schedule(retry_count) ==
    LET power == pow_u64(Min(retry_count, 4))
    IN IF power = Overflow THEN Overflow ELSE 60 * power

\* chrono::Duration::minutes(2_i64.pow(retry_count)), in seconds
RequeueDelay(retry_count) == 60 * Pow2(retry_count)

\* RedisMessageQueue.enqueue: LPUSH queue:<messenger>
enqueue(q, message_id, destination_id) ==
    <<[message_id |-> message_id, destination_id |-> destination_id,
       scheduled_at |-> NULL]>> \o q

\* RedisMessageQueue.requeue_with_delay: LPUSH queue_delayed:<messenger>
requeue_with_delay(dl, message_id, destination_id, delay) ==
    <<[message_id |-> message_id, destination_id |-> destination_id,
       scheduled_at |-> now + delay]>> \o dl

\* the promotion loop moving the left end of the delayed list whether due or not
RECURSIVE Promote_without_due_check(_, _)
Promote_without_due_check(dl, q) ==
    IF dl # <<>> /\ Head(dl).scheduled_at # NULL
    THEN Promote_without_due_check(Tail(dl), <<Head(dl)>> \o q)
    ELSE <<dl, q>>

\* RedisMessageQueue.dequeue, promotion loop: LRANGE 0 0 looks at the left end of
\* the delayed list; a due entry is LPOPped and LPUSHed on the live list, the loop
\* stops at the first entry that is not due
RECURSIVE Promote(_, _)
Promote(dl, q) ==
    IF dl # <<>> /\ Head(dl).scheduled_at # NULL /\ Head(dl).scheduled_at <= now
    THEN Promote(Tail(dl), <<Head(dl)>> \o q)
    ELSE <<dl, q>>

\* update_destination as UPDATE ... WHERE message_id = <the destination's message>
update_destination_of_message(ds, d, destination) ==
    [x \in Dests |->
        IF ds[x].exists /\ ds[x].message_id = ds[d].message_id
        THEN [ds[x] EXCEPT !.status = destination.status,
                           !.retry_count = destination.retry_count,
                           !.last_attempt = destination.last_attempt,
                           !.sent_at = destination.sent_at,
                           !.error_message = destination.error_message]
        ELSE ds[x]]

\* PostgresMessageRepository.update_destination: UPDATE ... WHERE id = $6
update_destination(ds, d, destination) ==
    IF ds[d].exists
    THEN [ds EXCEPT ![d].status = destination.status,
                    ![d].retry_count = destination.retry_count,
                    ![d].last_attempt = destination.last_attempt,
                    ![d].sent_at = destination.sent_at,
                    ![d].error_message = destination.error_message]
    ELSE ds

\* tasks calling RedisMessageQueue.dequeue for the messenger
Callers == 1..MaxCallers

NoItem == [message_id |-> 0, destination_id |-> 0, scheduled_at |-> NULL]

\* a dequeue call at the top of its promotion loop
CallIdle == [pc |-> "lrange", serialized |-> NoItem]

ServiceIdle == [pc |-> "idle", destination_id |-> 0, snapshot |-> NoDestination]

CoreMayFail == core_faults < MaxFaults

CoreIdle ==
    /\ destinations = [d \in Dests |-> NoDestination]
    /\ queue = <<>>
    /\ delayed = <<>>
    /\ now = 0
    /\ service = ServiceIdle
    /\ owed = [d \in Dests |-> 0]
    /\ core_manual = 0
    /\ core_faults = 0
    /\ send_failures = 0
    /\ send_result = "none"
    /\ adapter_calls = [d \in Dests |-> 0]
    /\ failed_at = [d \in Dests |-> NULL]

\* ------------------------------------------------- token registration helpers
Registrations == 1..MaxRegistrations

TokenIds == 1..MaxRegistrations

NoToken == [status |-> "none", updated_at |-> 0]

\* MessengerTokenRepository.list_by_user, narrowed to the request's messenger: the
\* ids RegisterTokenUseCase.execute can find as existing_token. Postgres orders
\* by updated_at DESC, the HashMap of the in-memory repository has no order.
ExistingTokens(repo, t) ==
    LET stored == {id \in TokenIds : t[id].status # "none"}
    IN IF repo = "postgres"
       THEN {id \in stored : \A o \in stored : t[o].updated_at <= t[id].updated_at}
       ELSE stored

\* InMemoryMessengerTokenRepository.upsert without the deactivation loop
in_memory_upsert_keeps_active(t, id, at) ==
    [t EXCEPT ![id] = [status |-> "active", updated_at |-> at]]

\* InMemoryMessengerTokenRepository.upsert: deactivates every active token of
\* the same user and messenger, then inserts the token
in_memory_upsert(t, id, at) ==
    [o \in TokenIds |->
        IF o = id THEN [status |-> "active", updated_at |-> at]
        ELSE IF t[o].status = "active" THEN [status |-> "inactive", updated_at |-> at]
        ELSE t[o]]

\* PostgresMessengerTokenRepository.upsert: INSERT ... ON CONFLICT (id) DO UPDATE
postgres_upsert(t, id, at) ==
    [t EXCEPT ![id] = [status |-> "active", updated_at |-> at]]

\* platform_tokens is unique on (user_id, platform) WHERE status = 'active': a
\* statement that would leave two active rows fails and writes nothing
unique_active_index(t) ==
    Cardinality({id \in TokenIds : t[id].status = "active"}) <= 1

TokenRepos == {"postgres", "in_memory"}

TokensIdle ==
    /\ tokens = [repo \in TokenRepos |-> [id \in TokenIds |-> NoToken]]
    /\ token_clock = 0
    /\ registering = [r \in Registrations |-> [pc |-> "idle", repo |-> "none", id |-> 0]]

\* ----------------------------------------------------------- retry sweeper helpers
SweeperIdle == [pc |-> "idle", found |-> <<>>]

\* PostgresMessageRepository.find_pending_retries: WHERE status = 'failed' AND
\* retry_count < 5
PendingRetries(ds) ==
    {d \in Dests : ds[d].exists /\ ds[d].status = "failed" /\ ds[d].retry_count < 5}

\* ... ORDER BY last_attempt ASC: the rows as the query returns them, each with
\* its id (rows with the same last_attempt in id order)
RECURSIVE find_pending_retries(_, _)
find_pending_retries(ds, selected) ==
    IF selected = {} THEN <<>>
    ELSE LET first == CHOOSE d \in selected :
                          \A o \in selected :
                              \/ ds[d].last_attempt < ds[o].last_attempt
                              \/ ds[d].last_attempt = ds[o].last_attempt /\ d <= o
         IN <<[id |-> first, destination |-> ds[first]]>>
                \o find_pending_retries(ds, selected \ {first})

\* MessageQueueWorker.should_retry_destination
should_retry_destination(destination) ==
    IF destination.retry_count >= 5 THEN FALSE
    ELSE IF destination.last_attempt # NULL
            /\ now - destination.last_attempt
                   < calculate_retry_schedule(destination.retry_count)
         THEN FALSE
    ELSE TRUE

\* MessageQueue.enqueue_message as MessageQueueWorker.schedule_retry calls it:
\* the queue item of the destination is published to the live list
enqueue_message(q, id, destination) == enqueue(q, destination.message_id, id)

\* the services after construction
Started ==
    /\ token = FALSE
    /\ history = [m \in Messages |-> NoEntry]
    /\ attempts_log = [m \in Messages |-> <<>>]
    /\ stream = <<>>
    /\ worker = [w \in Workers |-> Idle]
    /\ manual_retries = [m \in Messages |-> 0]
    /\ faults = 0
    /\ schedule_result = "none"
    /\ retry_result = NoRetryResult
    /\ attempts_result = NoAttemptsResult
    /\ CoreIdle
    /\ TokensIdle
    /\ sweeper = SweeperIdle
    /\ dequeue_calls = [k \in Callers |-> CallIdle]
    /\ put = [d \in Dests |-> 0]
    /\ taken = <<>>

\* retry counts the routing service is asked about: the small ones, the width of
\* u64 and the largest count the checker can hold
RetryCounts == 0..MaxRetryCount \cup {U64Bits, 2147483647}

NoSchedule == [retry_counts |-> <<0, 0>>, delays |-> <<>>]

\* ------------------------------------------------- messages as Postgres rows
\* SendMessageRequest.format
RequestFormats == {"none", "plain", "markdown", "html"}

\* SendMessageRequest.content of an accepted request
Texts == {"h", "hi"}

MessengerTypes == {"Telegram", "VK", "MAX"}

\* SendMessageRequest.destinations of an accepted request
DestinationLists ==
    UNION {[1..n -> [messenger_type : MessengerTypes, chat_id : {"12345"}]] :
               n \in 1..MaxDests}

\* SendMessageUseCaseImpl.execute: request.format.as_deref() to TextFormat
TextFormatOf(format) ==
    CASE format = "markdown" -> "Markdown"
      [] format = "html" -> "Html"
      [] OTHER -> "Plain"

\* SendMessageUseCaseImpl.execute: the Payload built from the content
PayloadOf(text, format) ==
    IF TextFormatOf(format) = "Plain"
    THEN [variant |-> "Plain", content |-> text, format |-> "none"]
    ELSE [variant |-> "Formatted", content |-> text, format |-> TextFormatOf(format)]

\* PostgresMessageRepository.save: the payload_type column
payload_type(payload) ==
    IF payload.variant = "Plain" THEN "plain"
    ELSE CASE payload.format = "Plain" -> "plain"
           [] payload.format = "Markdown" -> "markdown"
           [] payload.format = "Html" -> "html"

\* serde_json::to_value(&message.payload): Payload derives Serialize without a
\* tag attribute, so the value is an object with the variant's name as its key
to_value(payload) == [type |-> "object", key |-> payload.variant, value |-> payload]

JsonNull == [type |-> "null", key |-> "none", value |-> "none"]

\* serde_json::Value::as_str().unwrap_or("")
as_str_or_empty(json) == IF json.type = "string" THEN json.value ELSE ""

\* serde_json::Value indexed by a key: Null unless the value is an object that
\* has the key
JsonIndex(json, key) ==
    IF json.type = "object" /\ json.key = key THEN json.value ELSE JsonNull

\* impl Display for MessengerType
messenger_type_to_string(messenger_type) ==
    CASE messenger_type = "Telegram" -> "telegram"
      [] messenger_type = "VK" -> "vk"
      [] messenger_type = "MAX" -> "max"

\* PostgresMessageRepository.save: the row of messages and the rows of
\* message_destinations, in insertion order
save(payload, message_destinations) ==
    [message |-> [id |-> 1, payload_type |-> payload_type(payload),
                  payload_data |-> to_value(payload)],
     destinations |->
         [k \in 1..Len(message_destinations) |->
              [id |-> k, message_id |-> 1,
               messenger_type |->
                   messenger_type_to_string(message_destinations[k].messenger_type),
               chat_id |-> message_destinations[k].chat_id,
               status |-> "pending", retry_count |-> 0, last_attempt |-> NULL,
               sent_at |-> NULL, error_message |-> "none"]]]

\* PostgresMessageRepository.find_by_id: the columns its SELECT on
\* message_destinations names
SelectedColumns ==
    {"id", "messenger_type", "chat_id", "status", "retry_count", "last_attempt",
     "sent_at", "error_message"}

NoPayload == [variant |-> "none", content |-> "", format |-> "none"]

\* what find_by_id returns when it fails
FindError(error) == [error |-> error, payload |-> NoPayload, destinations |-> <<>>]

\* PostgresMessageRepository.find_by_id: "Parse payload"
ParsePayload(row) ==
    CASE row.payload_type = "plain" ->
             [variant |-> "Plain", content |-> as_str_or_empty(row.payload_data),
              format |-> "none"]
      [] row.payload_type = "formatted" ->
             [variant |-> "Formatted",
              content |-> as_str_or_empty(JsonIndex(row.payload_data, "content")),
              format |-> "Plain"]
      [] OTHER -> [NoPayload EXCEPT !.variant = "Unknown payload type"]

\* PostgresMessageRepository.find_by_id: the messenger_type of a row
ParseMessengerType(text) ==
    CASE text = "telegram" -> "Telegram"
      [] text = "vk" -> "VK"
      [] text = "max" -> "MAX"
      [] OTHER -> "Unknown messenger type"

\* PostgresMessageRepository.find_by_id on the rows save wrote: an error, or
\* the message; row.try_get fails for a column the SELECT does not name
find_by_id(rows) ==
    LET payload == ParsePayload(rows.message)
    IN IF payload.variant = "Unknown payload type"
       THEN FindError("Unknown payload type")
       ELSE IF rows.destinations # <<>> /\ "message_id" \notin SelectedColumns
       THEN FindError("Failed to get message_id")
       ELSE [error |-> "none", payload |-> payload,
             destinations |->
                 [k \in 1..Len(rows.destinations) |->
                      [messenger_type |->
                           ParseMessengerType(rows.destinations[k].messenger_type),
                       chat_id |-> rows.destinations[k].chat_id]]]

NoRows ==
    [message |-> [id |-> 0, payload_type |-> "none", payload_data |-> JsonNull],
     destinations |-> <<>>]

NoRoundTrip ==
    [request |-> [content |-> "", format |-> "none", destinations |-> <<>>],
     rows |-> NoRows, found |-> FindError("not read")]

Init == Started /\ retry_schedule = NoSchedule /\ round_trip = NoRoundTrip

\* a client is about to send an accepted request
InitRoundTrip ==
    /\ Started
    /\ retry_schedule = NoSchedule
    /\ \E text \in Texts, format \in RequestFormats, ds \in DestinationLists :
           round_trip = [NoRoundTrip EXCEPT
                            !.request = [content |-> text, format |-> format,
                                         destinations |-> ds]]

\* the routing service is about to be asked for the delays of two retry counts
InitDelay ==
    /\ Started
    /\ round_trip = NoRoundTrip
    /\ \E m \in RetryCounts, n \in RetryCounts :
           retry_schedule = [retry_counts |-> <<m, n>>, delays |-> <<>>]

\* RegisterTokenUseCase.execute: the token of (user, messenger) becomes Active
RegisterToken ==
    /\ ~token
    /\ token' = TRUE
    /\ UNCHANGED <<history, attempts_log, stream, worker, manual_retries, faults, schedule_result,
                   reqVars, coreVars, sideVars>>

\* ScheduleMessageUseCase.execute publishing the event before it inserts the row
ScheduleMessage_publish_first(m, recipient, outcome) ==
    /\ ~history[m].exists
    /\ \A k \in Messages : k < m => history[k].exists
    /\ outcome = "no_token" <=> ~token
    /\ outcome \notin {"ok", "no_token"} => MayFail
    /\ LET inserted == [history EXCEPT ![m] = [NoEntry EXCEPT !.exists = TRUE,
                                                          !.user_id = TokenUser,
                                                          !.recipient = recipient]]
       IN /\ history' = CASE outcome \in {"no_token", "publish_err", "insert_err"} -> history
                          [] outcome = "update_err" -> inserted
                          [] OTHER -> update_status(inserted, m, "Scheduled", "none", 0)
          /\ stream' = IF outcome \in {"no_token", "publish_err"}
                       THEN stream ELSE publish(stream, Event(m, 1))
    /\ faults' = IF outcome \in {"ok", "no_token"} THEN faults ELSE faults + 1
    /\ schedule_result' = CASE outcome = "ok" -> "Ok"
                            [] outcome = "no_token" -> "NoActiveToken"
                            [] outcome = "publish_err" -> "PublishError"
                            [] OTHER -> "StoreError"
    /\ UNCHANGED <<token, attempts_log, worker, manual_retries, reqVars, coreVars, sideVars>>

\* ScheduleMessageUseCase.execute without ensure_token_exists
ScheduleMessage_without_token_check(m, recipient, outcome) ==
    /\ ~history[m].exists
    /\ \A k \in Messages : k < m => history[k].exists
    /\ outcome = "ok"
    /\ history' = update_status([history EXCEPT ![m] = [NoEntry EXCEPT !.exists = TRUE,
                                                                     !.user_id = TokenUser,
                                                                     !.recipient = recipient]],
                                m, "Scheduled", "none", 0)
    /\ stream' = publish(stream, Event(m, 1))
    /\ schedule_result' = "Ok"
    /\ UNCHANGED <<token, attempts_log, worker, manual_retries, faults, reqVars, coreVars, sideVars>>

\* ScheduleMessageUseCase.execute
ScheduleMessage(m, recipient, outcome) ==
    /\ ~history[m].exists
    /\ \A k \in Messages : k < m => history[k].exists
    /\ outcome = "no_token" <=> ~token
    /\ outcome \notin {"ok", "no_token"} => MayFail
    /\ LET inserted == [history EXCEPT ![m] = [NoEntry EXCEPT !.exists = TRUE,
                                                          !.user_id = TokenUser,
                                                          !.recipient = recipient]]
       IN /\ history' = CASE outcome \in {"no_token", "insert_err"} -> history
                          [] outcome = "update_err" -> inserted
                          [] OTHER -> update_status(inserted, m, "Scheduled", "none", 0)
          /\ stream' = IF outcome = "ok" THEN publish(stream, Event(m, 1)) ELSE stream
    /\ faults' = IF outcome \in {"ok", "no_token"} THEN faults ELSE faults + 1
    /\ schedule_result' = CASE outcome = "ok" -> "Ok"
                            [] outcome = "no_token" -> "NoActiveToken"
                            [] outcome = "publish_err" -> "PublishError"
                            [] OTHER -> "StoreError"
    /\ UNCHANGED <<token, attempts_log, worker, manual_retries, reqVars, coreVars, sideVars>>

\* what RetryMessageUseCase.execute returned to a request
RetryResult(m, user_id, result) ==
    [message_id |-> m, user_id |-> user_id, result |-> result]

\* RetryMessageUseCase.execute without the comparison of message.user_id
RetryMessage_without_ownership_check(m, user_id, outcome) ==
    /\ history[m].exists
    /\ token
    /\ manual_retries[m] < MaxManualRetries
    /\ outcome # "ok" => MayFail
    /\ LET next_attempt == history[m].attempts + 1
       IN /\ history' = IF outcome = "update_err" THEN history
                        ELSE update_status(history, m, "Scheduled", "none", next_attempt)
          /\ stream' = IF outcome = "ok" THEN publish(stream, Event(m, next_attempt))
                       ELSE stream
    /\ manual_retries' = [manual_retries EXCEPT ![m] = @ + 1]
    /\ faults' = IF outcome = "ok" THEN faults ELSE faults + 1
    /\ retry_result' = RetryResult(m, user_id,
                                   CASE outcome = "ok" -> "Ok"
                                     [] outcome = "update_err" -> "StoreError"
                                     [] OTHER -> "PublishError")
    /\ UNCHANGED <<token, attempts_log, worker, schedule_result, attempts_result,
                   coreVars, sideVars>>

\* RetryMessageUseCase.execute
RetryMessage(m, user_id, outcome) ==
    /\ history[m].exists
    /\ token
    /\ IF history[m].user_id # user_id
       THEN /\ outcome = "ok"
            /\ retry_result' = RetryResult(m, user_id, "Forbidden")
            /\ UNCHANGED <<history, stream, manual_retries, faults>>
       ELSE /\ manual_retries[m] < MaxManualRetries
            /\ outcome # "ok" => MayFail
            /\ LET next_attempt == history[m].attempts + 1
               IN /\ history' = IF outcome = "update_err" THEN history
                                ELSE update_status(history, m, "Scheduled", "none",
                                                   next_attempt)
                  /\ stream' = IF outcome = "ok"
                               THEN publish(stream, Event(m, next_attempt))
                               ELSE stream
            /\ manual_retries' = [manual_retries EXCEPT ![m] = @ + 1]
            /\ faults' = IF outcome = "ok" THEN faults ELSE faults + 1
            /\ retry_result' = RetryResult(m, user_id,
                                           CASE outcome = "ok" -> "Ok"
                                             [] outcome = "update_err" -> "StoreError"
                                             [] OTHER -> "PublishError")
    /\ UNCHANGED <<token, attempts_log, worker, schedule_result, attempts_result,
                   coreVars, sideVars>>

\* GetMessageAttemptsUseCase.execute
GetMessageAttempts(m, user_id) ==
    /\ history[m].exists
    /\ attempts_result' =
           IF history[m].user_id # user_id
           THEN [message_id |-> m, user_id |-> user_id, error |-> "forbidden",
                 attempts |-> <<>>]
           ELSE [message_id |-> m, user_id |-> user_id, error |-> "none",
                 attempts |-> attempts_log[m]]
    /\ UNCHANGED <<token, history, attempts_log, stream, worker, manual_retries, faults,
                   schedule_result, retry_result, coreVars, sideVars>>

\* JetstreamWorker.run: the consumer hands the next event to process_message.
\* First deliveries come in stream order, redeliveries at any time.
Pull(w, i) ==
    /\ worker[w].pc = "idle"
    /\ i \in 1..Len(stream)
    /\ stream[i].state = "ready"
    /\ stream[i].deliveries = 0 =>
           \A j \in 1..(i - 1) : stream[j].deliveries > 0
    /\ stream' = [stream EXCEPT ![i].state = "held", ![i].deliveries = @ + 1]
    /\ worker' = [worker EXCEPT ![w] = [pc |-> "handle", cur |-> i, result |-> "none",
                                         store_failed |-> FALSE]]
    /\ UNCHANGED <<token, history, attempts_log, manual_retries, faults, schedule_result,
                   reqVars, coreVars, sideVars>>

\* MessageDispatchHandler.handle up to the adapter call
HandleStart(w, store) ==
    /\ worker[w].pc = "handle"
    /\ store # "ok" => MayFail
    /\ LET e == stream[worker[w].cur]
           m == e.message_id
       IN IF store # "ok" \/ ~history[m].exists \/ ~token
          THEN /\ worker' = [worker EXCEPT ![w].pc = "post", ![w].result = "err",
                                           ![w].store_failed = store # "ok"]
               /\ UNCHANGED attempts_log
          ELSE /\ attempts_log' = log_attempt(attempts_log, m, e.attempt, "InFlight", "none")
               /\ worker' = [worker EXCEPT ![w].pc = "sending"]
    /\ faults' = IF store = "ok" THEN faults ELSE faults + 1
    /\ UNCHANGED <<token, history, stream, manual_retries, schedule_result,
                   reqVars, coreVars, sideVars>>

\* MessageDispatchHandler.handle from the adapter's answer to its return
HandleSend(w, answer, store) ==
    /\ worker[w].pc = "sending"
    /\ store # "ok" => MayFail
    /\ LET e == stream[worker[w].cur]
           m == e.message_id
           status == IF answer = "ok" THEN "Sent"
                     ELSE IF e.attempt >= e.max_attempts THEN "Failed" ELSE "Retrying"
       IN /\ answer \in AdapterAnswers(history[m].recipient)
          /\ history' = IF store = "update_err" THEN history
                        ELSE update_status(history, m, status, answer, e.attempt)
          /\ attempts_log' = IF store = "ok"
                             THEN log_attempt(attempts_log, m, e.attempt, status, answer)
                             ELSE attempts_log
          /\ worker' = [worker EXCEPT ![w].pc = "post",
                           ![w].result = IF answer = "ok" /\ store = "ok" THEN "ok" ELSE "err",
                           ![w].store_failed = store # "ok"]
    /\ faults' = IF store = "ok" THEN faults ELSE faults + 1
    /\ UNCHANGED <<token, stream, manual_retries, schedule_result,
                   reqVars, coreVars, sideVars>>

\* process_message whose error ends JetstreamWorker.run
Finish_stops_on_error(w, pub_ok, ack_ok) ==
    /\ worker[w].pc = "post"
    /\ LET i == worker[w].cur
           e == stream[i]
           republish == worker[w].result = "err" /\ e.attempt < e.max_attempts
           failed == (republish /\ ~pub_ok) \/ ~ack_ok
           left == (ack_ok /\ ~(republish /\ ~pub_ok)) \/ e.deliveries >= MaxDeliver
       IN /\ failed => MayFail
          /\ ~republish => pub_ok
          /\ (republish /\ ~pub_ok) => ack_ok
          /\ IF republish /\ ~pub_ok
             THEN stream' = nack(stream, i)
             ELSE LET after == IF republish
                               THEN publish(stream, Event(e.message_id, e.attempt + 1))
                               ELSE stream
                  IN stream' = IF ack_ok THEN ack(after, i) ELSE nack(after, i)
          /\ faults' = IF failed THEN faults + 1 ELSE faults
          /\ worker' = [v \in Workers |->
                            IF v = w
                            THEN IF failed THEN [Idle EXCEPT !.pc = "stopped"] ELSE Idle
                            ELSE IF left /\ worker[v].cur > i
                                 THEN [worker[v] EXCEPT !.cur = @ - 1]
                                 ELSE worker[v]]
    /\ UNCHANGED <<token, history, attempts_log, manual_retries, schedule_result,
                   reqVars, coreVars, sideVars>>

\* JetstreamWorker.process_message after handler.handle returned
Finish(w, pub_ok, ack_ok) ==
    /\ worker[w].pc = "post"
    /\ LET i == worker[w].cur
           e == stream[i]
           republish == worker[w].result = "err" /\ e.attempt < e.max_attempts
           failed == (republish /\ ~pub_ok) \/ ~ack_ok
           left == (ack_ok /\ ~(republish /\ ~pub_ok)) \/ e.deliveries >= MaxDeliver
       IN /\ failed => MayFail
          /\ ~republish => pub_ok
          /\ (republish /\ ~pub_ok) => ack_ok
          /\ IF republish /\ ~pub_ok
             THEN stream' = nack(stream, i)
             ELSE LET after == IF republish
                               THEN publish(stream, Event(e.message_id, e.attempt + 1))
                               ELSE stream
                  IN stream' = IF ack_ok THEN ack(after, i) ELSE nack(after, i)
          /\ faults' = IF failed THEN faults + 1 ELSE faults
          /\ worker' = [v \in Workers |->
                            IF v = w THEN Idle
                            ELSE IF left /\ worker[v].cur > i
                                 THEN [worker[v] EXCEPT !.cur = @ - 1]
                                 ELSE worker[v]]
    /\ UNCHANGED <<token, history, attempts_log, manual_retries, schedule_result,
                   reqVars, coreVars, sideVars>>

Next ==
    \/ RegisterToken
    \/ \E m \in Messages, r \in Recipients,
          o \in {"ok", "no_token", "insert_err", "update_err", "publish_err"} :
              ScheduleMessage(m, r, o)
    \/ \E m \in Messages, o \in {"ok", "update_err", "publish_err"} :
           RetryMessage(m, TokenUser, o)
    \/ \E i \in 1..Len(stream) : Pull(1, i)
    \/ \E s \in {"ok", "err"} : HandleStart(1, s)
    \/ \E a \in {"ok", "network", "invalid chat id"}, s \in {"ok", "update_err", "log_err"} :
           HandleSend(1, a, s)
    \/ \E p \in BOOLEAN, a \in BOOLEAN : Finish(1, p, a)

Spec == Init /\ [][Next]_vars

\* the JetStream service under the retry and get_attempts requests of both
\* users, for messages to a chat the platform knows, while the worker delivers
\* without store, publish or ack failures
NextUsers ==
    \/ RegisterToken
    \/ \E m \in Messages, o \in {"ok", "no_token"} : ScheduleMessage(m, "12345", o)
    \/ \E m \in Messages, u \in Users, o \in {"ok", "update_err", "publish_err"} :
           RetryMessage(m, u, o)
    \/ \E m \in Messages, u \in Users : GetMessageAttempts(m, u)
    \/ \E i \in 1..Len(stream) : Pull(1, i)
    \/ HandleStart(1, "ok")
    \/ \E a \in {"ok", "network"} : HandleSend(1, a, "ok")
    \/ Finish(1, TRUE, TRUE)

SpecUsers == Init /\ [][NextUsers]_vars

\* the JetStream service whose worker meets failing store, publish and ack calls
\* and failing sends, under requests that all succeed and a manual retry of the
\* first message
NextRun ==
    \/ RegisterToken
    \/ \E m \in Messages : ScheduleMessage(m, "12345", "ok")
    \/ RetryMessage(1, TokenUser, "ok")
    \/ \E i \in 1..Len(stream) : Pull(1, i)
    \/ \E s \in {"ok", "err"} : HandleStart(1, s)
    \/ \E a \in {"ok", "network", "invalid chat id"}, s \in {"ok", "update_err", "log_err"} :
           HandleSend(1, a, s)
    \/ \E p \in BOOLEAN, a \in BOOLEAN : Finish(1, p, a)

\* JetstreamWorker.run is a loop: the consumer keeps delivering and every call
\* the worker awaits returns
SpecRun ==
    /\ Init /\ [][NextRun]_vars
    /\ WF_vars(\E i \in 1..Len(stream) : Pull(1, i))
    /\ WF_vars(\E s \in {"ok", "err"} : HandleStart(1, s))
    /\ WF_vars(\E a \in {"ok", "network", "invalid chat id"},
                  s \in {"ok", "update_err", "log_err"} : HandleSend(1, a, s))
    /\ WF_vars(\E p \in BOOLEAN, a \in BOOLEAN : Finish(1, p, a))

\* the JetStream service run as MaxWorkers instances against one durable
\* consumer, with manual retries of the owner and without store, publish or
\* ack failures
NextWorkers ==
    \/ RegisterToken
    \/ \E m \in Messages, o \in {"ok", "no_token"} : ScheduleMessage(m, "12345", o)
    \/ \E m \in Messages : RetryMessage(m, TokenUser, "ok")
    \/ \E w \in Workers, i \in 1..Len(stream) : Pull(w, i)
    \/ \E w \in Workers : HandleStart(w, "ok")
    \/ \E w \in Workers, a \in {"ok", "network"} : HandleSend(w, a, "ok")
    \/ \E w \in Workers : Finish(w, TRUE, TRUE)

SpecWorkers == Init /\ [][NextWorkers]_vars

\* the user's messenger_tokens row stops being 'active' (the column's other
\* value, 'inactive'): find_active then returns None
DeactivateToken ==
    /\ token
    /\ token' = FALSE
    /\ UNCHANGED <<history, attempts_log, stream, worker, manual_retries, faults,
                   schedule_result, reqVars, coreVars, sideVars>>

\* the JetStream service while the user's token may stop being active between
\* scheduling (or a manual retry) and dispatch; no store, publish or ack call
\* fails
NextNoToken ==
    \/ RegisterToken
    \/ DeactivateToken
    \/ \E m \in Messages, o \in {"ok", "no_token"} : ScheduleMessage(m, "12345", o)
    \/ \E m \in Messages : RetryMessage(m, TokenUser, "ok")
    \/ \E i \in 1..Len(stream) : Pull(1, i)
    \/ HandleStart(1, "ok")
    \/ \E a \in {"ok", "network"} : HandleSend(1, a, "ok")
    \/ Finish(1, TRUE, TRUE)

SpecNoToken == Init /\ [][NextNoToken]_vars


\* ------------------------------------------------------- core service actions
\* request.content: empty, blank, text, text with blanks around it
Contents == {<<>>, <<" ">>, <<"h">>, <<" ", "h", " ">>}

\* chat ids a request can name
ChatIds == {"12345", ""}

\* request.destinations: up to MaxDests chat ids
Requests == UNION {[1..n -> ChatIds] : n \in 0..MaxDests}

UsedDests == {d \in Dests : destinations[d].exists}

\* the destinations of one request, in input order
NewDests(n) == [k \in 1..n |-> Cardinality(UsedDests) + k]

\* the loop over the MessageQueued events walking the destinations from the
\* last one to the first
RECURSIVE EnqueueAll_last_first(_, _, _, _)
EnqueueAll_last_first(q, message_id, ds, k) ==
    IF k = 0 THEN q
    ELSE enqueue(EnqueueAll_last_first(q, message_id, ds, k - 1), message_id,
                 ds[Len(ds) + 1 - k])

\* SendMessageUseCaseImpl.execute, the loop over the MessageQueued events of
\* route_message: the first k destinations are enqueued in input order
RECURSIVE EnqueueAll(_, _, _, _)
EnqueueAll(q, message_id, ds, k) ==
    IF k = 0 THEN q
    ELSE enqueue(EnqueueAll(q, message_id, ds, k - 1), message_id, ds[k])

\* request.content.trim()
RECURSIVE trim_start(_)
trim_start(content) ==
    IF content # <<>> /\ Head(content) = " " THEN trim_start(Tail(content)) ELSE content

RECURSIVE trim_end(_)
trim_end(content) ==
    IF content # <<>> /\ content[Len(content)] = " "
    THEN trim_end(SubSeq(content, 1, Len(content) - 1))
    ELSE content

trim(content) == trim_end(trim_start(content))

\* ChatId::new: an empty id is Error::InvalidChatId
ChatIdNew(id) == IF id = "" THEN "InvalidChatId" ELSE "Ok"

\* SendMessageUseCaseImpl.execute, the checks before anything is stored: the
\* error execute returns, or "Ok"
Validate(content, chat_ids) ==
    IF trim(content) = <<>> THEN "InvalidContent"
    ELSE IF chat_ids = <<>> THEN "InvalidDestination"
    ELSE IF \E k \in 1..Len(chat_ids) : ChatIdNew(chat_ids[k]) # "Ok" THEN "DomainError"
    ELSE "Ok"

\* SendMessageUseCaseImpl.execute with repository.save moved before the
\* ChatId::new loop: the rows of a request with an empty chat id are stored
SendMessage_saves_before_chat_ids(content, chat_ids, save_ok, enqueued) ==
    LET n == Len(chat_ids)
        ds == NewDests(n)
        new == {ds[k] : k \in 1..n}
    IN /\ n <= MaxDests - Cardinality(UsedDests)
       /\ save_ok /\ enqueued = 0
       /\ Validate(content, chat_ids) # "Ok"
       /\ send_result' = Validate(content, chat_ids)
       /\ destinations' =
              IF Validate(content, chat_ids) = "DomainError"
              THEN [d \in Dests |->
                       IF d \in new
                       THEN [NoDestination EXCEPT !.exists = TRUE, !.message_id = ds[1]]
                       ELSE destinations[d]]
              ELSE destinations
       /\ UNCHANGED <<queue, owed, core_faults, delayed, now, service, core_manual,
                      send_failures, adapter_calls, failed_at, jsVars, sideVars>>

\* SendMessageUseCaseImpl.execute for a request with the given content and
\* destinations; save fails, or the first enqueued enqueue calls succeed
\* (enqueued < n: the next one fails and execute returns)
SendMessage(content, chat_ids, save_ok, enqueued) ==
    LET n == Len(chat_ids)
        ds == NewDests(n)
        message_id == ds[1]
        new == {ds[k] : k \in 1..n}
        sent == {ds[k] : k \in 1..enqueued}
    IN /\ n <= MaxDests - Cardinality(UsedDests)
       /\ enqueued \in 0..n
       /\ ~save_ok => enqueued = 0
       /\ IF Validate(content, chat_ids) # "Ok"
          THEN /\ save_ok /\ enqueued = 0
               /\ send_result' = Validate(content, chat_ids)
               /\ UNCHANGED <<destinations, queue, owed, core_faults>>
          ELSE /\ (~save_ok \/ enqueued < n) => CoreMayFail
               /\ IF ~save_ok
                  THEN UNCHANGED <<destinations, queue, owed>>
                  ELSE /\ destinations' =
                             [d \in Dests |->
                                 IF d \in new
                                 THEN [NoDestination EXCEPT !.exists = TRUE,
                                                            !.message_id = message_id]
                                 ELSE destinations[d]]
                       /\ queue' = EnqueueAll(queue, message_id, ds, enqueued)
                       /\ owed' = [d \in Dests |->
                                      IF d \in sent THEN owed[d] + 1 ELSE owed[d]]
               /\ send_result' = IF ~save_ok THEN "RepositoryError"
                                 ELSE IF enqueued < n THEN "QueueError" ELSE "Ok"
               /\ core_faults' = IF save_ok /\ enqueued = n THEN core_faults
                                 ELSE core_faults + 1
       /\ UNCHANGED <<delayed, now, service, core_manual, send_failures, adapter_calls,
                      failed_at, jsVars, sideVars>>

\* MessageService.retry_failed_message (manual retry)
RetryFailedMessage(d, outcome) ==
    /\ destinations[d].exists
    /\ core_manual < MaxManualRetries
    /\ outcome # "ok" => CoreMayFail
    /\ LET destination == destinations[d]
           updated_destination ==
               [destination EXCEPT !.status = "pending",
                                   !.retry_count = @ + 1,
                                   !.last_attempt = now,
                                   !.error_message = "none"]
       IN /\ destinations' = IF outcome = "update_err" THEN destinations
                             ELSE update_destination(destinations, d, updated_destination)
          /\ delayed' = IF outcome = "ok"
                        THEN requeue_with_delay(delayed, destination.message_id, d,
                                                RequeueDelay(updated_destination.retry_count))
                        ELSE delayed
          /\ owed' = IF outcome = "ok" THEN [owed EXCEPT ![d] = @ + 1] ELSE owed
    /\ core_manual' = core_manual + 1
    /\ core_faults' = IF outcome = "ok" THEN core_faults ELSE core_faults + 1
    /\ UNCHANGED <<queue, now, service, send_failures, send_result,
                   adapter_calls, failed_at, jsVars, sideVars>>

\* MessageService.process_pending_message: queue.dequeue, then
\* process_single_message up to the adapter call (find_by_id and the lookup of
\* the destination); a failing find_by_id ends the processing of the item
Dequeue(store_ok) ==
    /\ service.pc = "idle"
    /\ ~store_ok => CoreMayFail
    /\ LET promoted == Promote(delayed, queue)
           q == promoted[2]
       IN /\ q # <<>>
          /\ delayed' = promoted[1]
          /\ queue' = SubSeq(q, 1, Len(q) - 1)
          /\ LET item == q[Len(q)]
                 d == item.destination_id
             IN service' = IF store_ok /\ destinations[d].exists
                           THEN [pc |-> "sending", destination_id |-> d,
                                 snapshot |-> destinations[d]]
                           ELSE ServiceIdle
    /\ core_faults' = IF store_ok THEN core_faults ELSE core_faults + 1
    /\ UNCHANGED <<destinations, now, owed, core_manual, send_failures, send_result,
                   adapter_calls, failed_at, jsVars, sideVars>>

\* MessageService.auto_retry_failed_message, as called by process_single_message;
\* yields <<destinations, delayed, requeued>>
auto_retry_failed_message(ds, dl, d, update_ok, requeue_ok) ==
    LET destination == ds[d]
        updated_destination ==
            [destination EXCEPT !.status = "pending",
                                !.retry_count = @ + 1,
                                !.last_attempt = now,
                                !.error_message = "none"]
    IN IF destination.retry_count >= 3 THEN <<ds, dl, FALSE>>
       ELSE IF ~update_ok THEN <<ds, dl, FALSE>>
       ELSE IF ~requeue_ok
            THEN <<update_destination(ds, d, updated_destination), dl, FALSE>>
       ELSE <<update_destination(ds, d, updated_destination),
              requeue_with_delay(dl, destination.message_id, d,
                                 RequeueDelay(updated_destination.retry_count)),
              TRUE>>

\* MessageService.process_single_message from the adapter's answer to its return
ProcessSend(answer, fault) ==
    /\ service.pc = "sending"
    /\ fault # "none" => CoreMayFail
    /\ answer # "ok" => send_failures < MaxSendFailures
    /\ send_failures' = IF answer = "ok" THEN send_failures ELSE send_failures + 1
    /\ LET d == service.destination_id
           destination == service.snapshot
           sent == [destination EXCEPT !.status = "sent", !.sent_at = now]
           failed == [destination EXCEPT !.status = "failed", !.last_attempt = now,
                                         !.error_message = answer]
       IN IF answer = "ok"
          THEN /\ fault \in {"none", "update_err"}
               /\ destinations' = IF fault = "none"
                                  THEN update_destination(destinations, d, sent)
                                  ELSE destinations
               /\ owed' = IF fault = "none" THEN [owed EXCEPT ![d] = @ - 1] ELSE owed
               /\ UNCHANGED delayed
          ELSE IF fault = "update_err"
          THEN UNCHANGED <<destinations, delayed, owed>>
          ELSE LET stored == update_destination(destinations, d, failed)
               IN IF failed.retry_count < 3
                  THEN LET r == auto_retry_failed_message(stored, delayed, d,
                                     fault # "retry_update_err", fault # "requeue_err")
                       IN /\ destinations' = r[1]
                          /\ delayed' = r[2]
                          /\ owed' = IF r[3] THEN owed ELSE [owed EXCEPT ![d] = @ - 1]
                  ELSE /\ fault = "none"
                       /\ destinations' = update_destination(stored, d, failed)
                       /\ owed' = [owed EXCEPT ![d] = @ - 1]
                       /\ UNCHANGED delayed
    /\ adapter_calls' = [adapter_calls EXCEPT ![service.destination_id] = @ + 1]
    /\ failed_at' = IF answer = "ok" THEN failed_at
                     ELSE [failed_at EXCEPT ![service.destination_id] = now]
    /\ service' = ServiceIdle
    /\ core_faults' = IF fault = "none" THEN core_faults ELSE core_faults + 1
    /\ UNCHANGED <<queue, now, core_manual, send_result, jsVars,
                   sideVars>>

\* instants at which something becomes due
DueTimes ==
    {delayed[i].scheduled_at : i \in 1..Len(delayed)}
        \cup {destinations[d].last_attempt
                  + calculate_retry_schedule(destinations[d].retry_count) :
              d \in {x \in Dests : destinations[x].exists
                                     /\ destinations[x].last_attempt # NULL}}

\* the clock advances to an instant at which something becomes due
Tick(t) ==
    /\ t \in DueTimes
    /\ t > now
    /\ now' = t
    /\ UNCHANGED <<destinations, queue, delayed, service, owed, core_manual, core_faults,
                   send_failures, send_result,
                   adapter_calls, failed_at, jsVars, sideVars>>

NextCore ==
    \/ \E c \in Contents, ids \in Requests, s \in BOOLEAN, k \in 0..MaxDests :
           Validate(c, ids) = "Ok" /\ SendMessage(c, ids, s, k)
    \/ \E d \in Dests, o \in {"ok", "update_err", "requeue_err"} : RetryFailedMessage(d, o)
    \/ \E s \in BOOLEAN : Dequeue(s)
    \/ \E a \in {"ok", "network"},
          f \in {"none", "update_err", "retry_update_err", "requeue_err"} : ProcessSend(a, f)
    \/ \E t \in DueTimes : Tick(t)

SpecCore == Init /\ [][NextCore]_vars

\* the core service under every request, accepted or rejected, without manual
\* retries
NextSend ==
    \/ \E c \in Contents, ids \in Requests, s \in BOOLEAN, k \in 0..MaxDests :
           SendMessage(c, ids, s, k)
    \/ \E s \in BOOLEAN : Dequeue(s)
    \/ \E a \in {"ok", "network"},
          f \in {"none", "update_err", "retry_update_err", "requeue_err"} : ProcessSend(a, f)
    \/ \E t \in DueTimes : Tick(t)

SpecSend == Init /\ [][NextSend]_vars

\* ------------------------------------------------------------- the retry schedule
\* DefaultMessageRoutingService.calculate_retry_schedule applied to both counts
CalculateRetrySchedule ==
    /\ retry_schedule.delays = <<>>
    /\ retry_schedule' =
           [retry_schedule EXCEPT
              !.delays = <<calculate_retry_schedule(retry_schedule.retry_counts[1]),
                           calculate_retry_schedule(retry_schedule.retry_counts[2])>>]
    /\ UNCHANGED <<jsVars, coreVars, tokVars, sweeper, round_trip, promoVars>>

SpecDelay == InitDelay /\ [][CalculateRetrySchedule]_vars

\* ------------------------------------------------------ the message round trip
\* SendMessageUseCaseImpl.execute up to repository.save
SaveMessage ==
    /\ round_trip.rows.message.id = 0
    /\ round_trip.request.destinations # <<>>
    /\ round_trip' =
           [round_trip EXCEPT
              !.rows = save(PayloadOf(round_trip.request.content,
                                      round_trip.request.format),
                            round_trip.request.destinations)]
    /\ UNCHANGED <<jsVars, coreVars, tokVars, sweeper, retry_schedule, promoVars>>

\* MessageService.get_message_details: repository.find_by_id
GetMessageDetails ==
    /\ round_trip.rows.message.id # 0
    /\ round_trip.found.error = "not read"
    /\ round_trip' = [round_trip EXCEPT !.found = find_by_id(round_trip.rows)]
    /\ UNCHANGED <<jsVars, coreVars, tokVars, sweeper, retry_schedule, promoVars>>

SpecRoundTrip == InitRoundTrip /\ [][SaveMessage \/ GetMessageDetails]_vars

\* ------------------------------------- RedisMessageQueue.dequeue, command by command
\* requeue_with_delay for destination d after its retry_count-th failure
RequeueWithDelay(d, retry_count) ==
    /\ put[d] = 0
    /\ delayed' = requeue_with_delay(delayed, 1, d, RequeueDelay(retry_count))
    /\ put' = [put EXCEPT ![d] = @ + 1]
    /\ UNCHANGED <<destinations, queue, now, service, owed, core_manual, core_faults,
                   send_failures, send_result, adapter_calls, failed_at,
                   dequeue_calls, taken, jsVars, tokVars, sweeper, pureVars>>

\* dequeue, promotion loop: LRANGE queue_delayed 0 0 and the test of scheduled_at
DequeueLrange(k) ==
    /\ dequeue_calls[k].pc = "lrange"
    /\ dequeue_calls' =
           [dequeue_calls EXCEPT ![k] =
               IF delayed # <<>> /\ Head(delayed).scheduled_at # NULL
                                 /\ Head(delayed).scheduled_at <= now
               THEN [pc |-> "lpop", serialized |-> Head(delayed)]
               ELSE [pc |-> "rpop", serialized |-> NoItem]]
    /\ UNCHANGED <<coreVars, put, taken, jsVars, tokVars, sweeper, pureVars>>

\* dequeue, promotion loop: LPOP queue_delayed, the reply is dropped
DequeueLpop(k) ==
    /\ dequeue_calls[k].pc = "lpop"
    /\ delayed' = IF delayed = <<>> THEN <<>> ELSE Tail(delayed)
    /\ dequeue_calls' = [dequeue_calls EXCEPT ![k].pc = "lpush"]
    /\ UNCHANGED <<destinations, queue, now, service, owed, core_manual, core_faults,
                   send_failures, send_result, adapter_calls, failed_at,
                   put, taken, jsVars, tokVars, sweeper, pureVars>>

\* dequeue, promotion loop: LPUSH queue <the entry LRANGE returned>, continue
DequeueLpush(k) ==
    /\ dequeue_calls[k].pc = "lpush"
    /\ queue' = <<dequeue_calls[k].serialized>> \o queue
    /\ dequeue_calls' = [dequeue_calls EXCEPT ![k] = CallIdle]
    /\ UNCHANGED <<destinations, delayed, now, service, owed, core_manual, core_faults,
                   send_failures, send_result, adapter_calls, failed_at,
                   put, taken, jsVars, tokVars, sweeper, pureVars>>

\* dequeue after the loop: RPOP queue; the call returns and the next one starts
DequeueRpop(k) ==
    /\ dequeue_calls[k].pc = "rpop"
    /\ queue # <<>>
    /\ queue' = SubSeq(queue, 1, Len(queue) - 1)
    /\ taken' = Append(taken, queue[Len(queue)])
    /\ dequeue_calls' = [dequeue_calls EXCEPT ![k] = CallIdle]
    /\ UNCHANGED <<destinations, delayed, now, service, owed, core_manual, core_faults,
                   send_failures, send_result, adapter_calls, failed_at,
                   put, jsVars, tokVars, sweeper, pureVars>>

\* dequeue after the loop with an empty live list: None, the next call starts
DequeueNone(k) ==
    /\ dequeue_calls[k].pc = "rpop"
    /\ queue = <<>>
    /\ dequeue_calls' = [dequeue_calls EXCEPT ![k] = CallIdle]
    /\ UNCHANGED <<coreVars, put, taken, jsVars, tokVars, sweeper, pureVars>>

\* concurrent dequeue calls on the lists of one messenger while entries are added
\* to the delayed list and time passes
NextPromote ==
    \/ \E d \in Dests, n \in 1..2 : RequeueWithDelay(d, n)
    \/ \E k \in Callers : DequeueLrange(k)
    \/ \E k \in Callers : DequeueLpop(k)
    \/ \E k \in Callers : DequeueLpush(k)
    \/ \E k \in Callers : DequeueRpop(k)
    \/ \E k \in Callers : DequeueNone(k)
    \/ \E t \in DueTimes : Tick(t)

SpecPromote == Init /\ [][NextPromote]_vars

\* ------------------------------------------------- both services, the publishers
\* Send and manual retry of both services with their store, publish and queue
\* failures, next to consumers whose calls all succeed
NextPersist ==
    \/ RegisterToken
    \/ \E m \in Messages,
          o \in {"ok", "no_token", "insert_err", "update_err", "publish_err"} :
              ScheduleMessage(m, "12345", o)
    \/ \E m \in Messages, o \in {"ok", "update_err", "publish_err"} :
           RetryMessage(m, TokenUser, o)
    \/ \E i \in 1..Len(stream) : Pull(1, i)
    \/ HandleStart(1, "ok")
    \/ HandleSend(1, "ok", "ok")
    \/ Finish(1, TRUE, TRUE)
    \/ \E c \in Contents, ids \in Requests, s \in BOOLEAN, k \in 0..MaxDests :
           SendMessage(c, ids, s, k)
    \/ \E d \in Dests, o \in {"ok", "update_err", "requeue_err"} : RetryFailedMessage(d, o)
    \/ Dequeue(TRUE)
    \/ ProcessSend("ok", "none")

SpecPersist == Init /\ [][NextPersist]_vars

\* ---------------------------------------------------------- retry sweeper actions
\* MessageQueueWorker.process_retries: find_pending_retries; nothing found, or
\* a failing query, ends the round
ProcessRetriesFind ==
    /\ sweeper.pc = "idle"
    /\ PendingRetries(destinations) # {}
    /\ sweeper' = [pc |-> "retrying",
                   found |-> find_pending_retries(destinations, PendingRetries(destinations))]
    /\ UNCHANGED <<coreVars, jsVars, tokVars, pureVars, promoVars>>

\* MessageQueueWorker.process_retries, one turn of the loop over the rows found:
\* should_retry_destination, then schedule_retry on the row as it was read
ProcessRetriesStep(outcome) ==
    /\ sweeper.pc = "retrying"
    /\ outcome # "ok" => CoreMayFail
    /\ LET d == Head(sweeper.found).id
           destination == Head(sweeper.found).destination
           retry_destination == [destination EXCEPT !.status = "retryscheduled",
                                                    !.retry_count = @ + 1,
                                                    !.last_attempt = now]
           rest == Tail(sweeper.found)
       IN /\ IF should_retry_destination(destination)
             THEN /\ destinations' = IF outcome = "update_err" THEN destinations
                                     ELSE update_destination(destinations, d,
                                                             retry_destination)
                  /\ queue' = IF outcome = "ok"
                              THEN enqueue_message(queue, d, retry_destination)
                              ELSE queue
                  /\ owed' = IF outcome = "ok" THEN [owed EXCEPT ![d] = @ + 1] ELSE owed
                  /\ core_faults' = IF outcome = "ok" THEN core_faults ELSE core_faults + 1
             ELSE /\ outcome = "ok"
                  /\ UNCHANGED <<destinations, queue, owed, core_faults>>
          /\ sweeper' = IF rest = <<>> THEN SweeperIdle
                        ELSE [sweeper EXCEPT !.found = rest]
    /\ UNCHANGED <<delayed, now, service, core_manual, send_failures, send_result,
                   adapter_calls, failed_at, jsVars, tokVars, pureVars, promoVars>>

\* the core service with its retry sweeper, under accepted requests and without
\* manual retries
NextSweep ==
    \/ \E c \in Contents, ids \in Requests, s \in BOOLEAN, k \in 0..MaxDests :
           Validate(c, ids) = "Ok" /\ SendMessage(c, ids, s, k)
    \/ \E s \in BOOLEAN : Dequeue(s)
    \/ \E a \in {"ok", "network"},
          f \in {"none", "update_err", "retry_update_err", "requeue_err"} : ProcessSend(a, f)
    \/ \E t \in DueTimes : Tick(t)
    \/ ProcessRetriesFind
    \/ \E o \in {"ok", "update_err", "enqueue_err"} : ProcessRetriesStep(o)

SpecSweep == Init /\ [][NextSweep]_vars

\* the sweeper loop, the queue consumer and the clock keep running
SpecSweepFair ==
    /\ SpecSweep
    /\ WF_vars(ProcessRetriesFind)
    /\ WF_vars(\E o \in {"ok", "update_err", "enqueue_err"} : ProcessRetriesStep(o))
    /\ WF_vars(\E s \in BOOLEAN : Dequeue(s))
    /\ WF_vars(\E a \in {"ok", "network"},
                  f \in {"none", "update_err", "retry_update_err", "requeue_err"} :
                   ProcessSend(a, f))
    /\ WF_vars(\E t \in DueTimes : Tick(t))

\* ------------------------------------------------ token registration actions
\* ids handed out so far: stored, or chosen by a call in progress
TakenTokenIds ==
    {id \in TokenIds : \E repo \in TokenRepos : tokens[repo][id].status # "none"}
        \cup {registering[r].id : r \in Registrations}

\* RegisterTokenUseCase.execute up to the upsert, on the use case built over the
\* given repository: list_by_user, then the id of the existing token of the
\* messenger, or a new Uuid
RegisterList(r, repo, id) ==
    /\ registering[r].pc = "idle"
    /\ LET existing == ExistingTokens(repo, tokens[repo])
       IN IF existing # {}
          THEN id \in existing
          ELSE /\ id \in TokenIds \ TakenTokenIds
               /\ \A o \in TokenIds \ TakenTokenIds : id <= o
    /\ registering' = [registering EXCEPT ![r] = [pc |-> "listed", repo |-> repo, id |-> id]]
    /\ UNCHANGED <<tokens, token_clock, sweeper, pureVars, promoVars, jsVars, coreVars>>

\* RegisterTokenUseCase.execute: repo.upsert of the Active token
RegisterUpsert(r) ==
    /\ registering[r].pc = "listed"
    /\ token_clock' = token_clock + 1
    /\ LET repo == registering[r].repo
           id == registering[r].id
           written == postgres_upsert(tokens[repo], id, token_clock')
       IN tokens' = [tokens EXCEPT ![repo] =
                        IF repo = "postgres"
                        THEN IF unique_active_index(written) THEN written ELSE @
                        ELSE in_memory_upsert(@, id, token_clock')]
    /\ registering' = [registering EXCEPT ![r].pc = "done"]
    /\ UNCHANGED <<sweeper, pureVars, promoVars, jsVars, coreVars>>

NextTokens ==
    \/ \E r \in Registrations, repo \in TokenRepos, id \in TokenIds :
           RegisterList(r, repo, id)
    \/ \E r \in Registrations : RegisterUpsert(r)

SpecTokens == Init /\ [][NextTokens]_vars

\* ------------------------------------------------- derived notions (JetStream)
Terminal(status) == status \in {"Sent", "Failed"}

\* an un-acked event of message m is in the stream
InStream(m) == \E i \in 1..Len(stream) : stream[i].message_id = m

\* attempts started for m: one InFlight row is logged right before each send
StartedAttempts(m) ==
    Cardinality({i \in 1..Len(attempts_log[m]) : attempts_log[m][i].status = "InFlight"})

LastAttempt(m) == attempts_log[m][Len(attempts_log[m])]

\* the message the worker of the first instance is handling
Current == stream[worker[1].cur].message_id

\* C2: once a message is Sent or Failed, only a manual retry changes its status
C2_TerminalIsFinal ==
    [][\A m \in Messages :
          (Terminal(history[m].status) /\ history'[m].status # history[m].status)
              => manual_retries'[m] # manual_retries[m]]_vars

\* C3: handling an event whose message is already Sent or Failed appends no
\* attempt row, starts no adapter call and leaves the row unchanged
C3_IdempotentDispatch ==
    [][(worker[1].pc = "handle" /\ worker'[1].pc # "handle"
            /\ Terminal(history[Current].status))
          => (worker'[1].pc = "post" /\ attempts_log' = attempts_log /\ history' = history)]_vars

\* C4: a message that was never retried manually sees at most max_attempts
\* adapter calls
C4_AttemptBudget ==
    \A m \in Messages : manual_retries[m] = 0 => StartedAttempts(m) <= MaxAttempts

\* C5: between two items, a message that is Failed and was never retried
\* manually has a last attempt row Failed with attempt_number = max_attempts
C5_ExhaustedIsFailed ==
    \A m \in Messages :
        (worker[1].pc = "idle" /\ history[m].status = "Failed" /\ manual_retries[m] = 0)
            => /\ Len(attempts_log[m]) > 0
               /\ LastAttempt(m).status = "Failed"
               /\ LastAttempt(m).attempt_number = MaxAttempts

\* C6: a message whose stored reason is the adapter's terminal error
\* "invalid chat id" is Failed (never Retrying)
C6_TerminalErrorFails ==
    \A m \in Messages :
        history[m].reason = "invalid chat id" => history[m].status = "Failed"

\* C7: between two items, a message has an event in the stream iff its status
\* is Scheduled or Retrying
C7_QueuedIffInStream ==
    \A m \in Messages :
        (worker[1].pc = "idle" /\ history[m].exists)
            => (InStream(m) <=> history[m].status \in {"Scheduled", "Retrying"})

\* C8: the stored attempts of a message never decrease
C8_AttemptsMonotonic ==
    [][\A m \in Messages : history'[m].attempts >= history[m].attempts]_vars

\* C9: between two items, the stored attempts of a message that was never
\* retried manually equal the number of attempts started for it in the log
C9_AttemptsMatchLog ==
    \A m \in Messages :
        (worker[1].pc = "idle" /\ manual_retries[m] = 0)
            => history[m].attempts = StartedAttempts(m)

\* C14: while the user has no active token, a Send is answered with the
\* no-active-token error and creates no message row, no attempt row and no event
C14_NoTokenRejected ==
    [][(~token /\ ~token')
          => /\ history' = history /\ attempts_log' = attempts_log /\ stream' = stream
             /\ schedule_result' # schedule_result => schedule_result' = "NoActiveToken"]_vars

\* a Send was rejected for want of an active token
C14_Witness == ~token /\ schedule_result = "NoActiveToken"

\* C15: a Send whose publish fails returns the publish error and leaves the
\* message it stored in status Pending
C15_PublishFailureLeavesPending ==
    [][\A m \in Messages :
          (~history[m].exists /\ history'[m].exists /\ schedule_result' = "PublishError")
              => history'[m].status = "Pending"]_vars

\* ------------------------------------------------------ derived notions (core)
Count(seq, d) == Cardinality({i \in 1..Len(seq) : seq[i].destination_id = d})

\* items of destination d that are in the live list, in the delayed list or in
\* the hands of process_single_message
Outstanding(d) ==
    Count(queue, d) + Count(delayed, d)
        + (IF service.pc = "sending" /\ service.destination_id = d THEN 1 ELSE 0)

\* C1: no published item is lost: every item that was published and not yet
\* processed to completion is still in the queue or being processed
C1_NoItemLost == \A d \in Dests : owed[d] <= Outstanding(d)

\* C10: sent_at is set exactly on the destinations whose status is sent
C10_SentAtIffSent ==
    \A d \in Dests :
        destinations[d].exists
            => (destinations[d].sent_at # NULL <=> destinations[d].status = "sent")

InvalidInput == {"InvalidContent", "InvalidDestination", "DomainError"}

\* C13: a Send that rejects its input (blank content, no destination, an empty
\* chat id) leaves the store and both queue lists unchanged
C13_RejectedSendPersistsNothing ==
    [][(send_result' # send_result /\ send_result' \in InvalidInput)
          => (destinations' = destinations /\ queue' = queue /\ delayed' = delayed)]_vars

\* a request with an empty chat id was rejected while an earlier message is
\* stored and queued
C13_Witness ==
    /\ send_result = "DomainError"
    /\ UsedDests # {}
    /\ queue # <<>>

\* both queue lists are empty and nothing is being processed
Drained == queue = <<>> /\ delayed = <<>> /\ service.pc = "idle"

\* C17: when one message was sent and accepted and the adapter only ever
\* succeeded, then once the queue is drained every destination of the message is
\* sent after exactly one adapter call (attempt)
C17_AllSentOnce ==
    (/\ Drained
     /\ send_failures = 0
     /\ send_result = "Ok"
     /\ \A d \in UsedDests : destinations[d].message_id = 1)
        => \A d \in UsedDests : destinations[d].status = "sent" /\ adapter_calls[d] = 1

\* C18: without store or queue failures and without manual retries, an item of a
\* destination whose last attempt failed is handed to the adapter no earlier than
\* 60s * 2^min(retry_count, 4) after that attempt, retry_count being the count
\* the retry raised (120s for the first retry, 240s for the second)
C18_RetryNotEarly ==
    (/\ service.pc = "sending"
     /\ core_faults = 0
     /\ core_manual = 0
     /\ failed_at[service.destination_id] # NULL)
        => now >= failed_at[service.destination_id]
                      + calculate_retry_schedule(service.snapshot.retry_count)

\* the delays of the schedule as the specification lists them, in seconds
ListedDelays == <<60, 120, 240, 480, 960>>

Occurrences(seq, item) == Cardinality({i \in 1..Len(seq) : seq[i] = item})

\* C20: an item published with a delay stays in the delayed list until its
\* scheduled_at has come, and the live list, which dequeue pops, never holds an
\* item whose scheduled_at is still ahead
C20_NotBeforeScheduledAt ==
    /\ [](\A i \in 1..Len(queue) : queue[i].scheduled_at <= now)
    /\ [][\A i \in 1..Len(delayed) :
              delayed[i].scheduled_at > now
                  => Occurrences(delayed', delayed[i]) >= Occurrences(delayed, delayed[i])]_vars

\* a delayed item that came due is being processed while another one, not yet
\* due, waits in the delayed list
C20_Witness ==
    /\ service.pc = "sending"
    /\ service.snapshot.retry_count >= 1
    /\ \E i \in 1..Len(delayed) : delayed[i].scheduled_at > now

\* a destination that waits for delivery while no item of it is in the live
\* list, in the delayed list or being processed
Stranded(d) ==
    /\ destinations[d].exists
    /\ destinations[d].status \in {"pending", "retryscheduled"}
    /\ Outstanding(d) = 0

\* C16: a destination left without a queue item by a failed publish is
\* eventually published again
C16_SweeperRecovers ==
    \A d \in Dests : Stranded(d) ~> (Count(queue, d) + Count(delayed, d) > 0)

\* C11: error_message is set exactly on the destinations whose last attempt
\* failed (status failed or retryscheduled)
C11_ErrorIffFailed ==
    \A d \in Dests :
        destinations[d].exists
            => (destinations[d].error_message # "none"
                    <=> destinations[d].status \in {"failed", "retryscheduled"})

\* ------------------------------------------------ derived notions (tokens)
ActiveTokens(repo) == {id \in TokenIds : tokens[repo][id].status = "active"}

C21_ManualRetryImmediate ==
    [][\A d \in Dests :
          (/\ core_manual' = core_manual + 1
           /\ core_faults' = core_faults
           /\ owed'[d] = owed[d] + 1)
              => /\ destinations'[d].retry_count = destinations[d].retry_count + 1
                 /\ destinations'[d].error_message = "none"
                 /\ destinations'[d].status = "pending"
                 /\ \/ Count(queue', d) = Count(queue, d) + 1
                    \/ \E i \in 1..Len(delayed') :
                           /\ delayed'[i].destination_id = d
                           /\ delayed'[i].scheduled_at <= now']_vars

\* adapter calls of message m for attempts beyond the budget: handle logs one
\* InFlight row right before each client.send
CallsBeyondBudget(m) ==
    Cardinality({i \in 1..Len(attempts_log[m]) :
                    /\ attempts_log[m][i].status = "InFlight"
                    /\ attempts_log[m][i].attempt_number > MaxAttempts})

\* C22: a manual retry of a message that used up max_attempts causes one more
\* adapter call and no more: there is at most one call beyond the budget per
\* manual retry, and no event beyond the budget is published but the one the
\* manual retry published
C22_ManualRetryHonorsBudget ==
    \A m \in Messages :
        /\ CallsBeyondBudget(m) <= manual_retries[m]
        /\ \A i \in 1..Len(stream) :
               stream[i].message_id = m => stream[i].attempt <= MaxAttempts + manual_retries[m]

\* the request that r answers came from a user who does not own the message
ForeignRequest(r) == r.message_id # 0 /\ history[r.message_id].user_id # r.user_id

C24_PublishedInInputOrder ==
    \A i \in 1..Len(queue), j \in 1..Len(queue) :
        (/\ i < j
         /\ queue[i].scheduled_at = NULL
         /\ queue[j].scheduled_at = NULL
         /\ queue[i].message_id = queue[j].message_id)
            => queue[j].destination_id < queue[i].destination_id

\* the items of both destinations of one message wait in the live list
C24_Witness ==
    /\ Len(queue) = MaxDests
    /\ \A i \in 1..Len(queue) : queue[i].message_id = 1 /\ queue[i].scheduled_at = NULL

\* the destinations of a list, as a set of (platform, chat id)
DestinationSet(ds) == {<<ds[k].messenger_type, ds[k].chat_id>> : k \in 1..Len(ds)}

\* C25: after a send, reading the message back gives the destinations of the
\* request and a payload equal to the one built from the request
C25_RoundTrip ==
    round_trip.found.error # "not read" =>
        /\ round_trip.found.error = "none"
        /\ round_trip.found.payload
               = PayloadOf(round_trip.request.content, round_trip.request.format)
        /\ DestinationSet(round_trip.found.destinations)
               = DestinationSet(round_trip.request.destinations)

\* the attempt rows of a message delivered on attempt n after n - 1 failures that
\* were retried: InFlight and Retrying for each failed attempt, then InFlight and
\* Sent
ExpectedLog(n) ==
    [i \in 1..(2 * n) |->
        [attempt_number |-> (i + 1) \div 2,
         status |-> IF i % 2 = 1 THEN "InFlight" ELSE IF i = 2 * n THEN "Sent" ELSE "Retrying",
         reason |-> IF i % 2 = 0 /\ i < 2 * n THEN "network" ELSE "none"]]

\* C26: a message that was never retried manually and is Sent with attempts = n
\* has the attempt rows InFlight, Retrying (n - 1 times), InFlight, Sent, in
\* this order
C26_AttemptLogOrder ==
    \A m \in Messages :
        (history[m].exists /\ history[m].status = "Sent" /\ manual_retries[m] = 0)
            => attempts_log[m] = ExpectedLog(history[m].attempts)

\* the message worker w is calling the adapter for
Sending(w) == IF worker[w].pc = "sending" THEN stream[worker[w].cur].message_id ELSE 0

\* C27: no two adapter send calls for the same message are in progress at the
\* same time, whether the events come from automatic or from manual retries
\* and whichever workers pulled them
C27_OneSendAtATime ==
    \A v, w \in Workers : (v # w /\ Sending(v) # 0) => Sending(v) # Sending(w)

\* C28: a write to a destination row is computed from the row as it is stored:
\* when process_single_message writes the destination it read at dequeue time,
\* no other writer has changed the row in between
C28_NoLostUpdate ==
    [][(service.pc = "sending"
            /\ destinations'[service.destination_id] # destinations[service.destination_id])
          => service.snapshot = destinations[service.destination_id]]_vars

\* the rows that start an attempt of message m, in insertion order
StartRows(m) == SelectSeq(attempts_log[m], LAMBDA row : row.status = "InFlight")

\* C29: attempt numbers start at 1 and every attempt started for a message
\* carries a greater attempt_number than every attempt started for it before
C29_AttemptNumbersIncrease ==
    \A m \in Messages :
        /\ \A i \in 1..Len(attempts_log[m]) : attempts_log[m][i].attempt_number >= 1
        /\ \A i, j \in 1..Len(StartRows(m)) :
               i < j => StartRows(m)[i].attempt_number < StartRows(m)[j].attempt_number

\* C30: when a store call failed inside handler.handle, process_message
\* publishes no follow-up event and does not ack: the event stays in the
\* stream, with the same attempt number, for redelivery
C30_StoreFailureRedelivers ==
    [][\A w \in Workers :
          (worker[w].pc = "post" /\ worker[w].store_failed /\ worker'[w].pc = "idle")
              => stream' = nack(stream, worker[w].cur)]_vars

\* handle ended attempt n of message m by logging it as Retrying
RetryingFor(m, n) ==
    /\ attempts_log[m] # <<>>
    /\ LastAttempt(m).status = "Retrying"
    /\ LastAttempt(m).attempt_number = n

\* C31: when handle finds no active token, the message becomes Failed with
\* reason "no active token", one attempt row is appended and the adapter is not
\* called; process_message then acks the event and publishes no follow-up
C31_NoTokenFails ==
    [][/\ (worker[1].pc = "handle" /\ ~token /\ worker'[1].pc # "handle")
             => /\ worker'[1].pc = "post"
                /\ history'[Current].status = "Failed"
                /\ history'[Current].reason = "no active token"
                /\ Len(attempts_log'[Current]) = Len(attempts_log[Current]) + 1
       /\ (worker[1].pc = "post" /\ worker'[1].pc = "idle"
              /\ ~RetryingFor(Current, stream[worker[1].cur].attempt))
             => stream' = ack(stream, worker[1].cur)]_vars

\* C32: while a worker is inside client.send for a message, the stored status
\* of the message is InFlight
C32_InFlightWhileSending ==
    \A w \in Workers : Sending(w) # 0 => history[Sending(w)].status = "InFlight"

\* the delayed list as the promotion loop of a dequeue called now leaves it
AfterSweep == Promote(delayed, queue)[1]

\* C33: a dequeue promotes every entry of the delayed list that is due,
\* wherever the entry sits in the list
C33_DuePromoted ==
    \A i \in 1..Len(AfterSweep) : AfterSweep[i].scheduled_at > now

\* C34: process_single_message for destination d, whatever the adapter
\* answers, leaves the row of every other destination as it was
C34_OtherDestinationsUnchanged ==
    [][(service.pc = "sending" /\ service'.pc = "idle")
          => \A d \in Dests \ {service.destination_id} :
                 destinations'[d] = destinations[d]]_vars

\* one message with a sent and a failed destination
C34_Witness ==
    \E d, e \in Dests :
        /\ destinations[d].exists /\ destinations[e].exists
        /\ destinations[d].message_id = destinations[e].message_id
        /\ destinations[d].status = "sent"
        /\ destinations[e].status = "failed"
        /\ destinations[e].retry_count = 3

\* C35: when process_message is done with an event, a follow-up event with
\* attempt + 1 was published if handle left the message Retrying for that
\* attempt, and otherwise the event was acked and nothing was published
C35_RepublishIffRetrying ==
    [][(worker[1].pc = "post" /\ worker'[1].pc = "idle")
          => LET i == worker[1].cur
                 e == stream[i]
             IN stream' = IF RetryingFor(e.message_id, e.attempt)
                          THEN ack(publish(stream, Event(e.message_id, e.attempt + 1)), i)
                          ELSE ack(stream, i)]_vars

\* no dequeue call is between its LRANGE and its LPUSH
NoMoveInProgress == \A k \in Callers : dequeue_calls[k].pc \in {"lrange", "rpop"}

\* C36: whenever no promotion is half done, every entry put into the delayed
\* list is exactly once in the delayed list, in the live list or among the
\* items dequeue returned, and the live list holds no entry that is not due
C36_PromotedExactlyOnce ==
    NoMoveInProgress =>
        /\ \A d \in Dests : Count(delayed, d) + Count(queue, d) + Count(taken, d) = put[d]
        /\ \A i \in 1..Len(queue) : queue[i].scheduled_at <= now

\* C37: a Retrying message always has an event in the stream, and a failed
\* event with attempts left leaves the stream only in a step that puts its
\* follow-up event there
C37_PublishBeforeAck ==
    [][/\ \A m \in Messages : history'[m].status = "Retrying" => InStream(m)'
       /\ (worker[1].pc = "post" /\ worker'[1].pc = "idle" /\ worker[1].result = "err"
               /\ stream[worker[1].cur].attempt < stream[worker[1].cur].max_attempts)
             => \/ stream' = nack(stream, worker[1].cur)
                \/ \E j \in 1..Len(stream') :
                       stream'[j] = Event(Current, stream[worker[1].cur].attempt + 1)]_vars

\* C38: every event in the stream refers to a message_history row that exists,
\* every item in the live or the delayed list to a destination row that
\* exists and belongs to the item's message, and the item a consumer holds is
\* one whose row it found
C38_PersistBeforePublish ==
    /\ \A i \in 1..Len(stream) : history[stream[i].message_id].exists
    /\ \A i \in 1..Len(queue) :
           /\ destinations[queue[i].destination_id].exists
           /\ destinations[queue[i].destination_id].message_id = queue[i].message_id
    /\ \A i \in 1..Len(delayed) :
           /\ destinations[delayed[i].destination_id].exists
           /\ destinations[delayed[i].destination_id].message_id = delayed[i].message_id
    /\ service.pc = "sending" => service.snapshot.exists

\* both services have published: an event and a queue item wait for their consumers
C38_Witness ==
    /\ \E i \in 1..Len(stream) : stream[i].state = "ready" /\ manual_retries[stream[i].message_id] = 1
    /\ \E i \in 1..Len(delayed) : destinations[delayed[i].destination_id].retry_count = 1
    /\ queue # <<>>

\* C39: without a manual retry, a destination whose retry_count has reached 3
\* keeps its retry_count and gets no new queue item
C39_AutoRetryLimit ==
    [][\A d \in Dests :
          (destinations[d].retry_count >= 3 /\ core_manual' = core_manual)
              => /\ destinations'[d].retry_count = destinations[d].retry_count
                 /\ Count(queue', d) + Count(delayed', d) <= Count(queue, d) + Count(delayed, d)]_vars

\* process_message returned an error for some item: handle failed, or the
\* publish or the ack did
ProcessingFailed ==
    \/ faults > 0
    \/ worker[1].pc = "post" /\ worker[1].result = "err"

\* C40: once the processing of an item has failed, every item that is in the
\* stream then or comes later is still handled: the stream runs empty again
C40_WorkerKeepsGoing ==
    (ProcessingFailed /\ stream # <<>>) ~> (stream = <<>> /\ worker[1].pc = "idle")

\* after a failed item the worker has handled the events of the message and of
\* its manual retry
C40_Witness ==
    /\ faults > 0
    /\ stream = <<>>
    /\ worker[1].pc = "idle"
    /\ manual_retries[1] = 1
    /\ history[1].status = "Sent"

TypeOK ==
    /\ token \in BOOLEAN
    /\ \A m \in Messages : history[m].attempts \in Nat
    /\ \A w \in Workers : worker[w].pc \in {"idle", "handle", "sending", "post"}

=============================================================================
